---- MODULE Spec2Model ----
(***************************************************************************)
(* A model of thorns/util/dumpdb.py: the timestamp-versioned store of      *)
(* tables (dumpdb, loaddb, dbinfo).                                        *)
(*                                                                         *)
(* Strings that the code formats, parses, sorts or splits (version keys,   *)
(* file names) are sequences of one-character strings; Ord gives the code  *)
(* point Python compares them by.  A pandas DataFrame is a record          *)
(*   [index : sequence of index field names (<<>>: the default index),     *)
(*    columns : sequence of column names, rows : sequence of rows],        *)
(* a row being a function from the index fields and the columns to cells.  *)
(***************************************************************************)
EXTENDS Integers, Sequences, FiniteSets, TLC

VARIABLES
    clock,      \* position of the wall clock in ClockValues
    dirExists,  \* whether the work directory exists
    files,      \* the work directory: file name -> file contents
    handles,    \* the container handles that are open
    dumps,      \* history: the dumpdb calls in call order, each with its
                \* arguments, the instant and key it got, what it stored
                \* and the caller's table as the call left it
    ret,        \* the last call: its arguments and what it returned or raised
    probe,      \* the inputs and outputs of the key formatting runs (SpecKey)
    pc          \* where each concurrent dumpdb call stands (SpecRace)

vars == <<clock, dirExists, files, handles, dumps, ret, probe, pc>>

(***************************************************************************)
(* Bounds of the model.                                                    *)
(***************************************************************************)
MaxDumps == 2
MaxRows == 2

(***************************************************************************)
(* Characters and strings.                                                 *)
(***************************************************************************)
DigitChars == <<"0", "1", "2", "3", "4", "5", "6", "7", "8", "9">>

DigitValues ==
    [c \in {DigitChars[i] : i \in 1..10} |->
        CHOOSE n \in 0..9 : DigitChars[n + 1] = c]

IsDigit(c) == c \in DOMAIN DigitValues

DigitVal(c) == DigitValues[c]

\* Code point of a character (the characters the model's strings are made of).
Ord(c) ==
    CASE c = "." -> 46
      [] c = "/" -> 47
      [] IsDigit(c) -> 48 + DigitVal(c)
      [] c = "T" -> 84
      [] c = "_" -> 95
      [] c = "a" -> 97
      [] c = "b" -> 98
      [] c = "d" -> 100
      [] c = "e" -> 101
      [] c = "h" -> 104
      [] c = "l" -> 108
      [] c = "n" -> 110
      [] c = "o" -> 111
      [] c = "r" -> 114
      [] c = "t" -> 116
      [] c = "w" -> 119
      [] c = "x" -> 120

RECURSIVE StrLessFrom(_, _, _)
StrLessFrom(a, b, i) ==
    IF i > Len(b) THEN FALSE
    ELSE IF i > Len(a) THEN TRUE
    ELSE IF a[i] = b[i] THEN StrLessFrom(a, b, i + 1)
    ELSE Ord(a[i]) < Ord(b[i])

\* Python's < on strings: the first differing character decides, a proper
\* prefix is smaller.
StrLess(a, b) == StrLessFrom(a, b, 1)

RECURSIVE SortedStrings(_)
\* sorted(S) for a set of strings: ascending.
SortedStrings(S) ==
    IF S = {} THEN <<>>
    ELSE LET m == CHOOSE s \in S : \A u \in S \ {s} : StrLess(s, u)
         IN  <<m>> \o SortedStrings(S \ {m})

Last(s) == s[Len(s)]

(***************************************************************************)
(* The VersionKey codec: datetime.strftime and time.strptime.              *)
(* A datetime is [year, month, day, hour, minute, second, microsecond].    *)
(***************************************************************************)
DateTime(Y, M, D, h, m, s, us) ==
    [year |-> Y, month |-> M, day |-> D, hour |-> h, minute |-> m,
     second |-> s, microsecond |-> us]

DtTuple(t) ==
    <<t.year, t.month, t.day, t.hour, t.minute, t.second, t.microsecond>>

\* datetime's <: the earlier instant.
DtLess(t, u) ==
    \E i \in 1..7 :
        /\ \A j \in 1..(i - 1) : DtTuple(t)[j] = DtTuple(u)[j]
        /\ DtTuple(t)[i] < DtTuple(u)[i]

\* n in decimal without padding (str(n)).
RECURSIVE Decimal(_)
Decimal(n) ==
    IF n < 10 THEN <<DigitChars[n + 1]>>
    ELSE Decimal(n \div 10) \o <<DigitChars[(n % 10) + 1]>>

\* n as w decimal digits, zero padded: what %m, %d, %H, %M, %S (w = 2),
\* %f (w = 6) and, for the years 1000..9999, %Y (w = 4) produce.
ZeroPad(n, w) ==
    [i \in 1..w |-> DigitChars[((n \div (10 ^ (w - i))) % 10) + 1]]

strftimeUnpadded(now) ==
    <<"T">> \o Decimal(now.year) \o Decimal(now.month) \o Decimal(now.day)
        \o <<"_">> \o Decimal(now.hour) \o Decimal(now.minute)
        \o Decimal(now.second) \o <<"_">> \o Decimal(now.microsecond)

\* now.strftime("T%Y%m%d_%H%M%S_%f")
strftime(now) ==
    <<"T">> \o ZeroPad(now.year, 4) \o ZeroPad(now.month, 2)
        \o ZeroPad(now.day, 2) \o <<"_">> \o ZeroPad(now.hour, 2)
        \o ZeroPad(now.minute, 2) \o ZeroPad(now.second, 2) \o <<"_">>
        \o ZeroPad(now.microsecond, 6)

RECURSIVE NumOf(_)
\* int() of a string of digits.
NumOf(s) ==
    IF s = <<>> THEN 0
    ELSE 10 * NumOf(SubSeq(s, 1, Len(s) - 1)) + DigitVal(Last(s))

AllDigits(s) == \A i \in 1..Len(s) : IsDigit(s[i])

IsLeap(Y) == (Y % 4 = 0 /\ Y % 100 # 0) \/ Y % 400 = 0

DaysInMonth(Y, M) ==
    IF M = 2 THEN (IF IsLeap(Y) THEN 29 ELSE 28)
    ELSE IF M \in {4, 6, 9, 11} THEN 30 ELSE 31

\* The widths _strptime's regular expression can give the fields %m %d %H
\* %M %S (one or two digits) and %f (one to six) of a string of length n;
\* it tries two digits before one, the earlier field first.
FieldWidths(n) ==
    {w \in {<<m, d, H, M, S, n - (6 + m + d + H + M + S)>> :
                m \in {1, 2}, d \in {1, 2}, H \in {1, 2}, M \in {1, 2},
                S \in {1, 2}} : w[6] \in 1..6}

WidthsBefore(w, v) ==
    \E i \in 1..6 :
        /\ \A j \in 1..(i - 1) : w[j] = v[j]
        /\ w[i] > v[i]

\* Where field i (0: the year) starts, for the widths w.
FieldStart(w, i) ==
    CASE i = 0 -> 1
      [] i = 1 -> 5
      [] i = 2 -> 5 + w[1]
      [] i = 3 -> 6 + w[1] + w[2]
      [] i = 4 -> 6 + w[1] + w[2] + w[3]
      [] i = 5 -> 6 + w[1] + w[2] + w[3] + w[4]
      [] i = 6 -> 7 + w[1] + w[2] + w[3] + w[4] + w[5]

Field(s, w, i) ==
    SubSeq(s, FieldStart(w, i),
           FieldStart(w, i) + (IF i = 0 THEN 4 ELSE w[i]) - 1)

\* Whether the regular expression of "%Y%m%d_%H%M%S_%f" matches all of s
\* with the widths w.
Matches(s, w) ==
    /\ Len(s) = 6 + w[1] + w[2] + w[3] + w[4] + w[5] + w[6]
    /\ s[FieldStart(w, 3) - 1] = "_"
    /\ s[FieldStart(w, 6) - 1] = "_"
    /\ \A i \in 0..6 : AllDigits(Field(s, w, i))
    /\ NumOf(Field(s, w, 1)) \in 1..12
    /\ NumOf(Field(s, w, 2)) \in 1..31
    /\ NumOf(Field(s, w, 3)) \in 0..23
    /\ NumOf(Field(s, w, 4)) \in 0..59
    /\ NumOf(Field(s, w, 5)) \in 0..61
    /\ w[1] = 1 => Field(s, w, 1) # <<"0">>
    /\ w[2] = 1 => Field(s, w, 2) # <<"0">>

\* What a call that raises ValueError yields in place of a struct_time or a
\* datetime.
NoTime == <<>>

\* The widths the regular expression matches all of s with.
MatchedWidths(s) == {w \in FieldWidths(Len(s)) : Matches(s, w)}

\* The widths of ws the regular expression finds first.
FirstWidths(ws) == CHOOSE v \in ws : \A u \in ws \ {v} : WidthsBefore(v, u)

\* The calendar fields of s read with the widths w, or NoTime when the day
\* is out of range for the month.
StructTime(s, w) ==
    IF NumOf(Field(s, w, 2))
           > DaysInMonth(NumOf(Field(s, w, 0)), NumOf(Field(s, w, 1)))
    THEN NoTime
    ELSE <<NumOf(Field(s, w, 0)), NumOf(Field(s, w, 1)),
           NumOf(Field(s, w, 2)), NumOf(Field(s, w, 3)),
           NumOf(Field(s, w, 4)), NumOf(Field(s, w, 5))>>

ParsedWith(s, ws) ==
    IF ws = {} THEN NoTime ELSE StructTime(s, FirstWidths(ws))

\* time.strptime(s, "%Y%m%d_%H%M%S_%f"): the six calendar fields of the
\* struct_time (the fraction is parsed and dropped), or NoTime (ValueError).
strptime(s) == ParsedWith(s, MatchedWidths(s))

\* time.strptime(s, "T%Y%m%d_%H%M%S_%f")
strptimeT(s) ==
    IF s # <<>> /\ Head(s) = "T" THEN strptime(Tail(s)) ELSE NoTime

\* What datetime.datetime(...) yields when it raises ValueError.
NoDateTime == [error |-> "ValueError"]

\* datetime.datetime(*(time_s[0:6])), or NoDateTime: strptime raised before
\* it was reached, or it raises itself (a second of 60 or 61).
datetime(time_s) ==
    IF time_s = NoTime THEN NoDateTime
    ELSE IF time_s[6] > 59 THEN NoDateTime
    ELSE DateTime(time_s[1], time_s[2], time_s[3], time_s[4], time_s[5],
                  time_s[6], 0)

(***************************************************************************)
(* pandas: the DataFrame operations the code calls.                        *)
(* Cells: a number, NaN (an absent value), or a datetime.                  *)
(***************************************************************************)
Num(n) == [kind |-> "num", n |-> n]

NaN == [kind |-> "nan"]

Stamp(t) == [kind |-> "datetime", t |-> t]

Range(s) == {s[i] : i \in 1..Len(s)}

RECURSIVE Without(_, _)
\* The sequence s without its elements in the set S.
Without(s, S) ==
    IF s = <<>> THEN <<>>
    ELSE (IF Head(s) \in S THEN <<>> ELSE <<Head(s)>>) \o Without(Tail(s), S)

RECURSIVE Unique(_)
\* The elements of s, each at its first occurrence.
Unique(s) ==
    IF s = <<>> THEN <<>>
    ELSE <<Head(s)>> \o Unique(Without(Tail(s), {Head(s)}))

Labels(df) == Range(df.index) \cup Range(df.columns)

\* df[k] = v: the column k set to v in every row, added last when new.
SetColumn(df, k, v) ==
    [index |-> df.index,
     columns |-> IF k \in Range(df.columns) THEN df.columns
                 ELSE Append(df.columns, k),
     rows |-> [i \in 1..Len(df.rows) |->
                 [c \in Labels(df) \cup {k} |->
                     IF c = k THEN v ELSE df.rows[i][c]]]]

\* df.set_index(keys, append=True): the columns keys become index fields
\* after the existing ones.
set_index_append(df, keys) ==
    [index |-> df.index \o keys,
     columns |-> Without(df.columns, Range(keys)),
     rows |-> df.rows]

\* df.set_index(keys): the columns keys become the index; the old index is
\* dropped.
set_index(df, keys) ==
    [index |-> keys,
     columns |-> Without(df.columns, Range(keys)),
     rows |-> [i \in 1..Len(df.rows) |->
                 [c \in Range(df.columns) |-> df.rows[i][c]]]]

\* df.reset_index(): the index fields become the first columns.
reset_index(df) ==
    [index |-> <<>>, columns |-> df.index \o df.columns, rows |-> df.rows]

\* The rank of a column label in Python's string order.
LabelRank(c) ==
    CASE c = "timestamp" -> 1
      [] c = "trial" -> 2
      [] c = "v" -> 3
      [] c = "x" -> 4
      [] c = "y" -> 5

RECURSIVE SortedLabels(_)
SortedLabels(S) ==
    IF S = {} THEN <<>>
    ELSE LET m == CHOOSE c \in S : \A d \in S : LabelRank(c) <= LabelRank(d)
         IN  <<m>> \o SortedLabels(S \ {m})

RECURSIVE ConcatRows(_, _)
ConcatRows(dfs, cols) ==
    IF dfs = <<>> THEN <<>>
    ELSE [i \in 1..Len(Head(dfs).rows) |->
             [c \in cols |->
                 IF c \in Range(Head(dfs).columns) THEN Head(dfs).rows[i][c]
                 ELSE NaN]]
         \o ConcatRows(Tail(dfs), cols)

concatLatestFirst(dfs) ==
    [index |-> <<>>,
     columns |-> IF \A i \in 1..Len(dfs) : dfs[i].columns = dfs[1].columns
                 THEN dfs[1].columns
                 ELSE SortedLabels(UNION {Range(dfs[i].columns) :
                                             i \in 1..Len(dfs)}),
     rows |-> ConcatRows([i \in 1..Len(dfs) |-> dfs[Len(dfs) + 1 - i]],
                         UNION {Range(dfs[i].columns) : i \in 1..Len(dfs)})]

\* pd.concat(dfs) of frames with the default index, dfs not empty: the rows
\* of each frame in turn; the columns are those of the frames when all have
\* the same, else their sorted union, a frame's missing columns being NaN.
concat(dfs) ==
    LET same == \A i \in 1..Len(dfs) : dfs[i].columns = dfs[1].columns
        all == UNION {Range(dfs[i].columns) : i \in 1..Len(dfs)}
    IN  [index |-> <<>>,
         columns |-> IF same THEN dfs[1].columns ELSE SortedLabels(all),
         rows |-> ConcatRows(dfs, all)]

\* Two rows agree on the columns of subset (NaN equals NaN here).
SameKey(r, q, subset) == \A c \in Range(subset) : r[c] = q[c]

RECURSIVE SelectRows(_, _, _)
SelectRows(rows, keep, i) ==
    IF i > Len(rows) THEN <<>>
    ELSE (IF i \in keep THEN <<rows[i]>> ELSE <<>>)
         \o SelectRows(rows, keep, i + 1)

\* df.drop_duplicates(subset, take_last=False): the first row of each key.
drop_duplicates_first(df, subset) ==
    LET keep == {i \in 1..Len(df.rows) :
                    \A j \in 1..(i - 1) :
                        ~SameKey(df.rows[i], df.rows[j], subset)}
    IN  [df EXCEPT !.rows = SelectRows(df.rows, keep, 1)]

drop_duplicates_none(df, subset) == df

\* df.drop_duplicates(subset, take_last=True): of the rows that agree on
\* the columns subset only the last is kept; the order is kept.
drop_duplicates(df, subset) ==
    LET keep == {i \in 1..Len(df.rows) :
                    \A j \in (i + 1)..Len(df.rows) :
                        ~SameKey(df.rows[i], df.rows[j], subset)}
    IN  [df EXCEPT !.rows = SelectRows(df.rows, keep, 1)]

(***************************************************************************)
(* The work directory and the container files (HDF5, through HDFStore and  *)
(* PyTables).  A file is [kind |-> "hdf", nodes |-> node name -> table] or *)
(* [kind |-> "other"] (not a container).  A handle is [file, mode].        *)
(***************************************************************************)
workdir == <<"w", "o", "r", "k">>

Suffix == <<".", "h", "5">>

\* os.path.join(workdir, fn)
PathJoin(dir, fn) == dir \o <<"/">> \o fn

\* s.endswith(t)
EndsWith(s, t) ==
    Len(s) >= Len(t) /\ SubSeq(s, Len(s) - Len(t) + 1, Len(s)) = t

RECURSIVE Split(_, _)
\* s.split(sep) for a one-character sep: the pieces between the separators.
Split(s, sep) ==
    IF \A i \in 1..Len(s) : s[i] # sep THEN <<s>>
    ELSE LET i == CHOOSE k \in 1..Len(s) :
                      s[k] = sep /\ \A j \in 1..(k - 1) : s[j] # sep
         IN  <<SubSeq(s, 1, i - 1)>> \o Split(SubSeq(s, i + 1, Len(s)), sep)

\* The directory entry a path of the work directory names.
Basename(path) == Last(Split(path, "/"))

NoNodes == [k \in {} |-> {}]

EmptyContainer == [kind |-> "hdf", nodes |-> NoNodes]

NotAContainer == [kind |-> "other"]

IsContainer(path) ==
    Basename(path) \in DOMAIN files /\ files[Basename(path)].kind = "hdf"

\* The files after the files names were opened in the given mode: "a"
\* creates an absent file as an empty container, "r" creates nothing, and
\* opening alone changes no node.
FilesOpened(fs, names, mode) ==
    [f \in DOMAIN fs \cup (IF mode = "a" THEN names ELSE {}) |->
        IF f \in DOMAIN fs THEN fs[f] ELSE EmptyContainer]

AppendMode == "a"

\* pd.io.pytables.HDFStore(fname, 'r') in loaddb
LoadMode == "r"

\* tables.open_file(fl, mode = "r") in dbinfo
ScanMode == "r"

\* store.keys(): the node names, each with a leading "/".
StoreKeys(nodes) == {<<"/">> \o k : k \in DOMAIN nodes}

PutWithoutDuplicates(nodes, key, data) ==
    [k \in DOMAIN nodes \cup {key} |->
        IF k = key THEN drop_duplicates(data, data.index) ELSE nodes[k]]

PutIfAbsent(nodes, key, data) ==
    [k \in DOMAIN nodes \cup {key} |->
        IF k \in DOMAIN nodes THEN nodes[k] ELSE data]

\* store[key] = data
Put(nodes, key, data) ==
    [k \in DOMAIN nodes \cup {key} |-> IF k = key THEN data ELSE nodes[k]]

\* h5file.get_filesize(): the byte size is outside the model; the number of
\* nodes stands for it.
get_filesize(f) == Cardinality(DOMAIN f.nodes)

NoTable == [none |-> TRUE]

(***************************************************************************)
(* The inputs: the clock, the tables and the arguments of the calls.       *)
(***************************************************************************)
\* The instants at which datetime.now() is read, in time order.
ClockValues ==
    <<DateTime(2014, 9, 30, 23, 59, 59, 999999),
      DateTime(2014, 10, 1, 0, 0, 0, 0),
      DateTime(2014, 10, 1, 0, 0, 0, 10),
      DateTime(2014, 10, 1, 0, 0, 1, 0)>>

\* The (x, v) of the rows of a table: two values under one key, and a
\* second key.
RowChoices == {<<1, 10>>, <<1, 20>>, <<2, 10>>}

YVals == {1}

IndexChoices == {<<"x">>, <<"x", "y">>}

RowsOf(idx) ==
    {[c \in Range(idx) \cup {"v"} |->
         IF c = "x" THEN Num(xv[1]) ELSE IF c = "y" THEN Num(b)
         ELSE Num(xv[2])] :
        xv \in RowChoices, b \in YVals}

SeqsUpTo(S, n) == UNION {[1..k -> S] : k \in 0..n}

\* The tables given to dumpdb: indexed by x or by x and y, one data column.
Tables ==
    UNION {{[index |-> idx, columns |-> <<"v">>, rows |-> rs] :
               rs \in SeqsUpTo(RowsOf(idx), MaxRows)} : idx \in IndexChoices}

\* The tables of the runs that exercise the directory and the failures: one
\* row, the same key, two values.
FewTables ==
    {t \in Tables :
        t.index = <<"x">> /\ Len(t.rows) = 1 /\ t.rows[1]["x"] = Num(1)}

\* The instants the codec is run on.
ProbeTimes ==
    {DateTime(Y, M, D, 9, m, s, us) :
        Y \in {1999, 2000}, M \in {9, 10}, D \in {9, 10}, m \in {9, 10},
        s \in {9, 10}, us \in {9, 10, 100000}}

\* kwargs: None (<<>>) or the items of the dict, in its iteration order.
NoKwargs == <<>>

Tags == <<(<<"trial", Num(3)>>)>>

\* The (data, kwargs) dumpdb is called with: every table without kwargs,
\* and the tables indexed by x with the tag trial = 3.
DumpInputs ==
    {<<t, NoKwargs>> : t \in Tables}
        \cup {<<t, Tags>> : t \in {u \in Tables : u.index = <<"x">>}}

DumpNames == {<<"a">>}

LoadNames == {<<"a">>, <<"o", "d", "d">>}

\* A store name with a dot in it.
DottedName == <<"a", ".", "b">>

StoreNames == DumpNames \cup {DottedName}

\* What the work directory holds before the first call, when it exists: a
\* file that is no container, a container whose greatest node name is no
\* VersionKey, a container with one dump, and a file without the suffix.
OldKey == strftime(DateTime(2013, 12, 31, 23, 59, 59, 5))

OldTable ==
    [index |-> <<"x">>, columns |-> <<"v">>,
     rows |-> <<[c \in {"x", "v"} |-> IF c = "x" THEN Num(1) ELSE Num(10)]>>]

ForeignKey == <<"r", "a", "w">>

BadFile == <<"b", "a", "d">> \o Suffix

OddFile == <<"o", "d", "d">> \o Suffix

OldFile == <<"o", "l", "d">> \o Suffix

NoteFile == <<"n", "o", "t", "e", ".", "t", "x", "t">>

InitialFiles ==
    [f \in {BadFile, OddFile, OldFile, NoteFile} |->
        IF f = OddFile
        THEN [kind |-> "hdf",
              nodes |-> Put(Put(NoNodes, OldKey, OldTable), ForeignKey, OldTable)]
        ELSE IF f = OldFile
        THEN [kind |-> "hdf", nodes |-> Put(NoNodes, OldKey, OldTable)]
        ELSE NotAContainer]

NoFiles == [f \in {} |-> {}]

(***************************************************************************)
(* dumpdb(data, name, workdir, kwargs)                                     *)
(***************************************************************************)
RECURSIVE SetColumns(_, _)
\* for k, v in kwargs.items(): data[k] = v
SetColumns(df, items) ==
    IF items = <<>> THEN df
    ELSE SetColumns(SetColumn(df, Head(items)[1], Head(items)[2]), Tail(items))

\* kwargs.keys()
KeysOf(items) == [i \in 1..Len(items) |-> items[i][1]]

TaggedReplacingIndex(data, kwargs) ==
    IF kwargs # NoKwargs
    THEN set_index(reset_index(SetColumns(data, kwargs)), KeysOf(kwargs))
    ELSE data

\* The table dumpdb stores: data itself, or with kwargs given, data with
\* each item set as a column and those columns appended to the index.
Tagged(data, kwargs) ==
    IF kwargs # NoKwargs
    THEN set_index_append(SetColumns(data, kwargs), KeysOf(kwargs))
    ELSE data

\* The caller's DataFrame after the call: data[k] = v sets the columns on the
\* object that was passed in; data.set_index(...) then makes a new object,
\* which the name data is bound to from there on.
CallerData(data, kwargs) ==
    IF kwargs # NoKwargs THEN SetColumns(data, kwargs) ELSE data

\* The function files with file f set to content c.
WithFile(fs, f, c) ==
    [g \in DOMAIN fs \cup {f} |-> IF g = f THEN c ELSE fs[g]]

\* dumpdb, the clock reading now, the write raising when fails: the files
\* and handles it leaves and how it ends.  The container is opened in
\* append mode (created when absent), written and closed; no try/finally
\* closes it when the write raises.
dumpdb(data, name, kwargs, now, fails) ==
    LET fname == PathJoin(workdir, name \o Suffix)
        file == Basename(fname)
        stored == Tagged(data, kwargs)
        key == strftime(now)
        openFails == file \in DOMAIN files /\ files[file].kind # "hdf"
        before == IF file \in DOMAIN files THEN files[file] ELSE EmptyContainer
    IN  IF openFails
        THEN [status |-> "IOError", files |-> files, handles |-> handles,
              key |-> key, stored |-> NoTable]
        ELSE IF fails
        THEN [status |-> "IOError", files |-> WithFile(files, file, before),
              handles |-> handles \cup {[file |-> file, mode |-> "a"]},
              key |-> key, stored |-> NoTable]
        ELSE [status |-> "ok",
              files |-> WithFile(files, file,
                            [kind |-> "hdf",
                             nodes |-> Put(before.nodes, key, stored)]),
              handles |-> handles, key |-> key, stored |-> stored]

(***************************************************************************)
(* loaddb(name, workdir, timestamp, load_all)                              *)
(***************************************************************************)
\* datetime.datetime(*(time.strptime(t[1:], "T%Y%m%d_%H%M%S_%f")[0:6])) for
\* a key t of store.keys().
KeyTime(t) == datetime(strptimeT(Tail(t)))

FirstKey(keys) == Head(SortedStrings(keys))

\* sorted(store.keys())[-1]
LatestKey(keys) == Last(SortedStrings(keys))

VersionFrameStampedLatest(nodes, t, timestamp) ==
    IF timestamp
    THEN SetColumn(reset_index(nodes[Tail(t)]), "timestamp",
                   Stamp(KeyTime(LatestKey(StoreKeys(nodes)))))
    ELSE reset_index(nodes[Tail(t)])

\* The frame of one version in the load_all loop.
VersionFrame(nodes, t, timestamp) ==
    LET df == reset_index(nodes[Tail(t)])
    IN  IF timestamp THEN SetColumn(df, "timestamp", Stamp(KeyTime(t)))
        ELSE df

RECURSIVE Flatten(_)
Flatten(ss) == IF ss = <<>> THEN <<>> ELSE Head(ss) \o Flatten(Tail(ss))

UnionIndexOfLatest(nodes, ts) == nodes[Tail(Last(ts))].index

\* The keys of the OrderedDict xkeys after the loop over the versions ts.
UnionIndex(nodes, ts) ==
    Unique(Flatten([i \in 1..Len(ts) |-> nodes[Tail(ts[i])].index]))

FinishUnindexed(db, xkeys) == drop_duplicates(db, xkeys)

\* db.drop_duplicates(subset=list(xkeys), take_last=True), then
\* db.set_index(list(xkeys)).
Finish(db, xkeys) == set_index(drop_duplicates(db, xkeys), xkeys)

Raised(exc, open) == [status |-> exc, table |-> NoTable, open |-> open]

Returned(db) == [status |-> "ok", table |-> db, open |-> FALSE]

\* The load_all branch over the versions ts = sorted(store.keys()) of an
\* open store.  With no version pd.concat(dbs) raises for the empty list
\* (ValueError, or a bare Exception in early pandas releases).
LoadVersions(nodes, ts, timestamp) ==
    IF timestamp /\ \E i \in 1..Len(ts) : KeyTime(ts[i]) = NoDateTime
    THEN Raised("ValueError", TRUE)
    ELSE IF ts = <<>>
    THEN Raised("ValueError", TRUE)
    ELSE Returned(Finish(
             concat([i \in 1..Len(ts) |->
                        VersionFrame(nodes, ts[i], timestamp)]),
             UnionIndex(nodes, ts)))

LoadAll(nodes, timestamp) ==
    LoadVersions(nodes, SortedStrings(StoreKeys(nodes)), timestamp)

\* The branch of the most recent version, for df = store[last_key] and t the
\* time of last_key.
LoadVersion(df, t, timestamp) ==
    IF timestamp /\ t = NoDateTime
    THEN Raised("ValueError", TRUE)
    ELSE Returned(Finish(
             reset_index(IF timestamp
                         THEN SetColumn(df, "timestamp", Stamp(t))
                         ELSE df),
             df.index))

LoadLatestOrEmpty(nodes, timestamp) ==
    IF StoreKeys(nodes) = {}
    THEN Returned([index |-> <<>>, columns |-> <<>>, rows |-> <<>>])
    ELSE Returned(nodes[Tail(LatestKey(StoreKeys(nodes)))])

LoadLatest(nodes, timestamp) ==
    IF StoreKeys(nodes) = {}
    THEN Raised("IndexError", TRUE)
    ELSE LoadVersion(nodes[Tail(LatestKey(StoreKeys(nodes)))],
                     KeyTime(LatestKey(StoreKeys(nodes))), timestamp)

\* loaddb: how it ends, the table it returns, and whether the store it
\* opened is still open (store.close() is reached only without an error).
loaddb(name, timestamp, load_all) ==
    LET fname == PathJoin(workdir, name \o Suffix)
    IN  IF ~IsContainer(fname) THEN Raised("IOError", FALSE)
        ELSE IF load_all
        THEN LoadAll(files[Basename(fname)].nodes, timestamp)
        ELSE LoadLatest(files[Basename(fname)].nodes, timestamp)

(***************************************************************************)
(* dbinfo(workdir)                                                         *)
(***************************************************************************)
\* fl.split('/')[-1].split('.')[0]
EntryName(fl) == Split(Last(Split(fl, "/")), ".")[1]

\* The end of the loop body for the file fl with the open container f,
\* whose node name parsed to t: the entry appended, or none when an
\* exception was swallowed; open: h5file.close() was not reached.
Scanned(fl, f, t) ==
    IF t = NoDateTime THEN [found |-> FALSE, open |-> TRUE]
    ELSE [found |-> TRUE, open |-> FALSE,
          entry |-> [name |-> EntryName(fl), timestamp |-> t,
                     filesize |-> get_filesize(f)]]

ScanFileFirstKey(fl) ==
    IF ~IsContainer(fl) \/ DOMAIN files[Basename(fl)].nodes = {}
    THEN [found |-> FALSE, open |-> FALSE]
    ELSE Scanned(fl, files[Basename(fl)],
                 datetime(strptime(Tail(Head(SortedStrings(
                     DOMAIN files[Basename(fl)].nodes))))))

\* The body of the loop for one file: timestamps[-1] of the sorted node
\* names is parsed without its first character.
ScanFile(fl) ==
    IF ~IsContainer(fl) THEN [found |-> FALSE, open |-> FALSE]
    ELSE IF DOMAIN files[Basename(fl)].nodes = {}
    THEN [found |-> FALSE, open |-> TRUE]
    ELSE Scanned(fl, files[Basename(fl)],
                 datetime(strptime(Tail(Last(SortedStrings(
                     DOMAIN files[Basename(fl)].nodes))))))

RECURSIVE FileList(_)
\* The paths of the listed names that end in '.h5', in listing order.
FileList(listing) ==
    IF listing = <<>> THEN <<>>
    ELSE (IF EndsWith(Head(listing), Suffix)
          THEN <<PathJoin(workdir, Head(listing))>> ELSE <<>>)
         \o FileList(Tail(listing))

RECURSIVE Entries(_)
\* The entries of the scanned files that gave one, in order.
Entries(scans) ==
    IF scans = <<>> THEN <<>>
    ELSE (IF Head(scans).found THEN <<Head(scans).entry>> ELSE <<>>)
         \o Entries(Tail(scans))

\* The handles of the files of file_list whose scan left them open.
Opened(file_list, scans) ==
    {[file |-> Basename(file_list[i]), mode |-> "r"] :
        i \in {j \in 1..Len(file_list) : scans[j].open}}

\* The loop over file_list.
ScanAll(file_list, scans) ==
    [status |-> "ok", df |-> Entries(scans),
     opened |-> Opened(file_list, scans)]

ScanFiles(file_list) ==
    ScanAll(file_list, [i \in 1..Len(file_list) |-> ScanFile(file_list[i])])

\* dbinfo when os.walk lists the directory in the order listing: how it
\* ends, the DataFrame it returns (a sequence of entries) and the handles
\* it leaves open.  next(os.walk(workdir)) raises StopIteration when the
\* directory does not exist.
dbinfo(listing) ==
    IF ~dirExists
    THEN [status |-> "StopIteration", df |-> <<>>, opened |-> {}]
    ELSE ScanFiles(FileList(listing))

RECURSIVE Enumerate(_)
\* The elements of a set in some order.
Enumerate(S) ==
    IF S = {} THEN <<>>
    ELSE LET x == CHOOSE y \in S : TRUE IN <<x>> \o Enumerate(S \ {x})

Reverse(s) == [i \in 1..Len(s) |-> s[Len(s) + 1 - i]]

\* os.walk lists a directory in no particular order: two orders are drawn.
Listings(names) == {Enumerate(names), Reverse(Enumerate(names))}

(***************************************************************************)
(* The state machine.                                                      *)
(***************************************************************************)
NoRet == [op |-> "none"]

NoProbe == <<>>

NoCalls == <<>>

Init ==
    /\ clock = 1
    /\ dirExists \in BOOLEAN
    /\ files = IF dirExists THEN InitialFiles ELSE NoFiles
    /\ handles = {}
    /\ dumps = <<>>
    /\ ret = NoRet
    /\ probe = NoProbe
    /\ pc = NoCalls

\* Time passes.  (Only dumpdb reads the clock: the clock moves on from an
\* instant a dump has read, while another dump can follow.)
Tick ==
    /\ clock < Len(ClockValues)
    /\ Len(dumps) < MaxDumps
    /\ \E i \in 1..Len(dumps) : dumps[i].now = ClockValues[clock]
    /\ clock' = clock + 1
    /\ UNCHANGED <<dirExists, files, handles, dumps, ret, probe, pc>>

Dump(name, data, kwargs, fails) ==
    /\ Len(dumps) < MaxDumps
    /\ \E r \in {dumpdb(data, name, kwargs, ClockValues[clock], fails)} :
           /\ dirExists' = TRUE
           /\ files' = r.files
           /\ handles' = r.handles
           /\ dumps' = Append(dumps, [name |-> name, data |-> data,
                                      kwargs |-> kwargs,
                                      now |-> ClockValues[clock],
                                      key |-> r.key, ok |-> r.status = "ok",
                                      table |-> r.stored,
                                      after |-> CallerData(data, kwargs)])
           /\ ret' = [op |-> "dumpdb", name |-> name, status |-> r.status]
    /\ UNCHANGED <<clock, probe, pc>>

Load(name, timestamp, load_all) ==
    /\ \E r \in {loaddb(name, timestamp, load_all)} :
           /\ handles' = IF r.open
                         THEN handles \cup {[file |-> name \o Suffix,
                                             mode |-> "r"]}
                         ELSE handles
           /\ ret' = [op |-> "loaddb", name |-> name,
                      timestamp |-> timestamp, load_all |-> load_all,
                      status |-> r.status, table |-> r.table]
    /\ files' = FilesOpened(files, {name \o Suffix}, LoadMode)
    /\ UNCHANGED <<clock, dirExists, dumps, probe, pc>>

Scan(listing) ==
    /\ \E r \in {dbinfo(listing)} :
           /\ handles' = handles \cup r.opened
           /\ ret' = [op |-> "dbinfo", listing |-> listing,
                      status |-> r.status, df |-> r.df]
    /\ files' = FilesOpened(files, {Basename(fl) : fl \in Range(FileList(listing))},
                            ScanMode)
    /\ UNCHANGED <<clock, dirExists, dumps, probe, pc>>

\* The store protocol with its failures: a work directory that may hold
\* foreign files, writes that may raise, loads and scans.
Next ==
    \/ Tick
    \/ \E name \in DumpNames, data \in FewTables, fails \in BOOLEAN :
          Dump(name, data, NoKwargs, fails)
    \/ \E name \in LoadNames, timestamp \in BOOLEAN, load_all \in BOOLEAN :
          Load(name, timestamp, load_all)
    \/ \E listing \in Listings(DOMAIN files) : Scan(listing)

Spec == Init /\ [][Next]_vars

\* Dumps of every table, with and without kwargs, into a fresh work
\* directory, and loads of what was dumped.
InitMerge ==
    /\ clock = 1
    /\ dirExists = FALSE
    /\ files = NoFiles
    /\ handles = {}
    /\ dumps = <<>>
    /\ ret = NoRet
    /\ probe = NoProbe
    /\ pc = NoCalls

NextMerge ==
    \/ Tick
    \/ \E name \in DumpNames, in \in DumpInputs :
          Dump(name, in[1], in[2], FALSE)
    \/ \E name \in DumpNames, timestamp \in BOOLEAN, load_all \in BOOLEAN :
          Load(name, timestamp, load_all)

SpecMerge == InitMerge /\ [][NextMerge]_vars

\* The VersionKey codec alone: two instants are drawn and formatted.
InitKey ==
    /\ clock = 1
    /\ dirExists = FALSE
    /\ files = NoFiles
    /\ handles = {}
    /\ dumps = <<>>
    /\ ret = NoRet
    /\ probe \in [t1 : ProbeTimes, t2 : ProbeTimes, k1 : {<<>>}, k2 : {<<>>}]
    /\ pc = NoCalls

Generate1 ==
    /\ probe.k1 = <<>>
    /\ probe' = [probe EXCEPT !.k1 = strftime(probe.t1)]
    /\ UNCHANGED <<clock, dirExists, files, handles, dumps, ret, pc>>

Generate2 ==
    /\ probe.k2 = <<>>
    /\ probe' = [probe EXCEPT !.k2 = strftime(probe.t2)]
    /\ UNCHANGED <<clock, dirExists, files, handles, dumps, ret, pc>>

NextKey == Generate1 \/ Generate2

SpecKey == InitKey /\ [][NextKey]_vars

\* Dumps to stores with and without a dot in the name, and scans.
NextNames ==
    \/ Tick
    \/ \E name \in StoreNames, data \in FewTables :
          Dump(name, data, NoKwargs, FALSE)
    \/ \E listing \in Listings(DOMAIN files) : Scan(listing)

SpecNames == Init /\ [][NextNames]_vars

\* Two dumpdb calls that run concurrently on an absent work directory, each
\* in the steps of the code: the test os.path.exists(workdir), then
\* os.makedirs(workdir) if the test found no directory, then the rest of the
\* call (tagging, key, open, write, close).
Callers == {1, 2}

InitRace ==
    /\ clock = 1
    /\ dirExists = FALSE
    /\ files = NoFiles
    /\ handles = {}
    /\ dumps = <<>>
    /\ ret = NoRet
    /\ probe = NoProbe
    /\ pc = [p \in Callers |-> [at |-> "exists", status |-> "running"]]

\* if not os.path.exists(workdir):
Exists(p) ==
    /\ pc[p].at = "exists"
    /\ pc' = [pc EXCEPT ![p].at = IF dirExists THEN "store" ELSE "makedirs"]
    /\ UNCHANGED <<clock, dirExists, files, handles, dumps, ret, probe>>

\* os.makedirs(workdir): OSError when the directory exists by now.
Makedirs(p, name) ==
    /\ pc[p].at = "makedirs"
    /\ IF dirExists
       THEN /\ pc' = [pc EXCEPT ![p] = [at |-> "done", status |-> "OSError"]]
            /\ ret' = [op |-> "dumpdb", name |-> name, status |-> "OSError"]
            /\ UNCHANGED dirExists
       ELSE /\ pc' = [pc EXCEPT ![p].at = "store"]
            /\ dirExists' = TRUE
            /\ UNCHANGED ret
    /\ UNCHANGED <<clock, files, handles, dumps, probe>>

\* The rest of dumpdb, from the tagging to store.close().
Store(p, name, data, kwargs, fails) ==
    /\ pc[p].at = "store"
    /\ \E r \in {dumpdb(data, name, kwargs, ClockValues[clock], fails)} :
           /\ files' = r.files
           /\ handles' = r.handles
           /\ dumps' = Append(dumps, [name |-> name, data |-> data,
                                      kwargs |-> kwargs,
                                      now |-> ClockValues[clock],
                                      key |-> r.key, ok |-> r.status = "ok",
                                      table |-> r.stored,
                                      after |-> CallerData(data, kwargs)])
           /\ ret' = [op |-> "dumpdb", name |-> name, status |-> r.status]
           /\ pc' = [pc EXCEPT ![p] = [at |-> "done", status |-> r.status]]
    /\ UNCHANGED <<clock, dirExists, probe>>

NextRace ==
    \/ Tick
    \/ \E p \in Callers : Exists(p)
    \/ \E p \in Callers, name \in DumpNames : Makedirs(p, name)
    \/ \E p \in Callers, name \in DumpNames, in \in DumpInputs :
          Store(p, name, in[1], in[2], FALSE)

SpecRace == InitRace /\ [][NextRace]_vars

(***************************************************************************)
(* Vocabulary of the properties.                                           *)
(***************************************************************************)
\* The dumps that were written to the store name, oldest first.
DumpsTo(name) == SelectSeq(dumps, LAMBDA d : d.name = name /\ d.ok)

\* No two of these dumps got the same VersionKey.
DistinctKeys(h) ==
    \A i, j \in 1..Len(h) : i # j => h[i].key # h[j].key

\* The index fields of all the dumps h.
UnionFields(h) == UNION {Range(h[i].table.index) : i \in 1..Len(h)}

\* The composite key of a row over the fields U, a field the row lacks
\* being absent.
KeyOver(row, U) == [c \in U |-> IF c \in DOMAIN row THEN row[c] ELSE NaN]

\* The rows of dump i of h that have the key k over U.
RowsWithKey(h, i, k, U) ==
    {j \in 1..Len(h[i].table.rows) : KeyOver(h[i].table.rows[j], U) = k}

Max(S) == CHOOSE n \in S : \A m \in S : m <= n

Min(S) == CHOOSE n \in S : \A m \in S : n <= m

\* The row that the most recent dump of h holding the key k has for it (the
\* last one, should that dump hold several).
NewestRow(h, k, U) ==
    LET i == Max({n \in 1..Len(h) : RowsWithKey(h, n, k, U) # {}})
    IN  h[i].table.rows[Max(RowsWithKey(h, i, k, U))]

\* No two rows of the table have the same composite key.
UniqueKeys(t) ==
    \A i, j \in 1..Len(t.rows) :
        i # j => ~SameKey(t.rows[i], t.rows[j], t.index)

\* The table without its column timestamp.
WithoutTimestamp(t) ==
    [index |-> t.index,
     columns |-> Without(t.columns, {"timestamp"}),
     rows |-> [i \in 1..Len(t.rows) |->
                 [c \in DOMAIN t.rows[i] \ {"timestamp"} |-> t.rows[i][c]]]]

LoadedAll == ret.op = "loaddb" /\ ret.load_all

LoadedLatest == ret.op = "loaddb" /\ ~ret.load_all

(***************************************************************************)
(* C1: after dumps to one store under distinct VersionKeys,                *)
(* load(merge_all=True) succeeds and returns exactly one row per distinct  *)
(* composite key over the union of the index fields, and that row has the  *)
(* values of the row with that key in the most recent dump that holds the  *)
(* key: an older dump's row never overrides a newer one's.                 *)
(***************************************************************************)
C1_MergeKeepsNewest ==
    LET h == DumpsTo(ret.name)
        U == UnionFields(h)
        keys == UNION {{KeyOver(h[i].table.rows[j], U) :
                           j \in 1..Len(h[i].table.rows)} : i \in 1..Len(h)}
    IN  (LoadedAll /\ h # <<>> /\ DistinctKeys(h)) =>
            /\ ret.status = "ok"
            /\ \A n \in 1..Len(ret.table.rows) :
                   KeyOver(ret.table.rows[n], U) \in keys
            /\ \A k \in keys :
                   \E n \in 1..Len(ret.table.rows) :
                       /\ KeyOver(ret.table.rows[n], U) = k
                       /\ \A m \in 1..Len(ret.table.rows) :
                              KeyOver(ret.table.rows[m], U) = k => m = n
                       /\ \A c \in DOMAIN NewestRow(h, k, U) :
                              ret.table.rows[n][c] = NewestRow(h, k, U)[c]

\* A merge of two dumps in which the same key has different values.
C1_Witness ==
    LET h == DumpsTo(ret.name)
    IN  /\ LoadedAll /\ ret.status = "ok"
        /\ Len(h) = 2 /\ DistinctKeys(h)
        /\ \E i \in 1..Len(h[1].table.rows), j \in 1..Len(h[2].table.rows) :
               /\ KeyOver(h[1].table.rows[i], UnionFields(h))
                      = KeyOver(h[2].table.rows[j], UnionFields(h))
               /\ h[1].table.rows[i]["v"] # h[2].table.rows[j]["v"]

(***************************************************************************)
(* C2: after dumps to a store, load(merge_all=False) succeeds and returns  *)
(* rows of one version only, the most recent dump, whose VersionKey is the *)
(* greatest of the store: its index is that version's and each of its rows *)
(* is a row of that version, so a row that only an older version holds     *)
(* does not appear.                                                        *)
(***************************************************************************)
C2_LatestOnly ==
    LET h == DumpsTo(ret.name)
        latest == Last(h)
        t == WithoutTimestamp(ret.table)
    IN  (LoadedLatest /\ h # <<>>) =>
            /\ ret.status = "ok"
            /\ \A i \in 1..Len(h) : ~StrLess(latest.key, h[i].key)
            /\ t.index = latest.table.index
            /\ \A n \in 1..Len(t.rows) :
                   \E j \in 1..Len(latest.table.rows) :
                       t.rows[n] = latest.table.rows[j]
            /\ \A j \in 1..Len(latest.table.rows) :
                   \E n \in 1..Len(t.rows) :
                       SameKey(t.rows[n], latest.table.rows[j], t.index)

\* A load of the latest of two versions, the older one holding a row with a
\* key the latest lacks.
C2_Witness ==
    LET h == DumpsTo(ret.name)
    IN  /\ LoadedLatest /\ ret.status = "ok"
        /\ Len(h) = 2 /\ DistinctKeys(h)
        /\ h[1].table.index = h[2].table.index
        /\ h[2].table.rows # <<>>
        /\ \E i \in 1..Len(h[1].table.rows) :
               \A j \in 1..Len(h[2].table.rows) :
                   ~SameKey(h[1].table.rows[i], h[2].table.rows[j],
                            h[1].table.index)

(***************************************************************************)
(* C3: round trip.  As stated: a table dumped without tags and loaded with *)
(* merge_all=False before any further dump comes back equal (rows, columns *)
(* and index fields in order; a requested timestamp column aside).  Stated *)
(* for the tables with two index fields.                                   *)
(***************************************************************************)
RoundTripCase ==
    /\ LoadedLatest
    /\ DumpsTo(ret.name) # <<>>
    /\ Last(DumpsTo(ret.name)).kwargs = NoKwargs

C3_RoundTripAnyTable ==
    (RoundTripCase /\ Len(Last(DumpsTo(ret.name)).data.index) = 2) =>
        /\ ret.status = "ok"
        /\ WithoutTimestamp(ret.table) = Last(DumpsTo(ret.name)).data

(***************************************************************************)
(* C3 as amended: the table comes back equal provided no two of its rows   *)
(* have the same composite key; in every case the index fields and the     *)
(* columns come back equal and in order.                                   *)
(***************************************************************************)
C3_RoundTrip ==
    LET data == Last(DumpsTo(ret.name)).data
        t == WithoutTimestamp(ret.table)
    IN  RoundTripCase =>
            /\ ret.status = "ok"
            /\ t.index = data.index
            /\ t.columns = data.columns
            /\ UniqueKeys(data) => t = data

\* A table of two rows, indexed by two fields, dumped and loaded back.
C3_Witness ==
    LET data == Last(DumpsTo(ret.name)).data
    IN  /\ RoundTripCase /\ ret.status = "ok"
        /\ data.index = <<"x", "y">>
        /\ Len(data.rows) = 2 /\ UniqueKeys(data)
        /\ WithoutTimestamp(ret.table) = data

(***************************************************************************)
(* C4: the store is append-only.  As stated: every dump that was written   *)
(* is still in its store under its VersionKey with the table it stored,    *)
(* and a store holds as many entries as dumps were written to it.          *)
(***************************************************************************)
StoreNodes(name) ==
    IF name \o Suffix \in DOMAIN files /\ files[name \o Suffix].kind = "hdf"
    THEN files[name \o Suffix].nodes
    ELSE NoNodes

C4_AppendOnly ==
    \A name \in DumpNames :
        /\ \A i \in 1..Len(DumpsTo(name)) :
               /\ DumpsTo(name)[i].key \in DOMAIN StoreNodes(name)
               /\ StoreNodes(name)[DumpsTo(name)[i].key]
                      = DumpsTo(name)[i].table
        /\ Cardinality(DOMAIN StoreNodes(name)) = Len(DumpsTo(name))

(***************************************************************************)
(* C5: key monotonicity: of two instants at least a microsecond apart the  *)
(* later one is formatted to the lexicographically greater VersionKey, so  *)
(* sorting the keys as strings sorts them by time.                         *)
(***************************************************************************)
C5_KeyMonotone ==
    (probe.k1 # <<>> /\ probe.k2 # <<>> /\ DtLess(probe.t1, probe.t2)) =>
        /\ StrLess(probe.k1, probe.k2)
        /\ SortedStrings({probe.k1, probe.k2}) = <<probe.k1, probe.k2>>

\* Two formatted instants, the earlier one with the greater microsecond,
\* second, minute, day and month.
C5_Witness ==
    /\ probe.k1 # <<>> /\ probe.k2 # <<>>
    /\ DtLess(probe.t1, probe.t2)
    /\ probe.t2.microsecond < probe.t1.microsecond
    /\ probe.t2.second < probe.t1.second
    /\ probe.t2.minute < probe.t1.minute
    /\ probe.t2.day < probe.t1.day
    /\ probe.t2.month < probe.t1.month

(***************************************************************************)
(* C6: union of keys across versions.  A merge of dumps under distinct     *)
(* VersionKeys is indexed by the index fields of all versions, in the      *)
(* order of their first appearance, oldest version first; every key of     *)
(* every version is in the result with the fields its version lacks        *)
(* absent, so after A indexed by x and B indexed by x and y, B's rows      *)
(* carry their y, A's rows have no y, and rows of A and B with equal x are *)
(* both kept.                                                              *)
(***************************************************************************)
\* f is an index field of an older version than g is, or of the same
\* version and there before g.
FirstSeenBefore(h, f, g) ==
    LET seen(c) == Min({i \in 1..Len(h) : c \in Range(h[i].table.index)})
        pos(c) == CHOOSE p \in 1..Len(h[seen(c)].table.index) :
                      h[seen(c)].table.index[p] = c
    IN  seen(f) < seen(g) \/ (seen(f) = seen(g) /\ pos(f) < pos(g))

C6_UnionOfKeys ==
    LET h == DumpsTo(ret.name)
        U == UnionFields(h)
        idx == ret.table.index
    IN  (LoadedAll /\ h # <<>> /\ DistinctKeys(h)) =>
            /\ ret.status = "ok"
            /\ Range(idx) = U /\ Len(idx) = Cardinality(U)
            /\ \A p, q \in 1..Len(idx) :
                   p < q => FirstSeenBefore(h, idx[p], idx[q])
            /\ \A i \in 1..Len(h) :
                   \A j \in 1..Len(h[i].table.rows) :
                       \E n \in 1..Len(ret.table.rows) :
                           \A c \in U :
                               ret.table.rows[n][c]
                                   = IF c \in Range(h[i].table.index)
                                     THEN h[i].table.rows[j][c] ELSE NaN

\* A indexed by x, then B indexed by x and y, no tags, with a row each for
\* the same x: merged, both rows are there.
C6_Witness ==
    LET h == DumpsTo(ret.name)
    IN  /\ LoadedAll /\ ret.status = "ok"
        /\ Len(h) = 2 /\ DistinctKeys(h)
        /\ h[1].table.index = <<"x">> /\ h[2].table.index = <<"x", "y">>
        /\ ret.table.index = <<"x", "y">>
        /\ \E n, m \in 1..Len(ret.table.rows) :
               /\ ret.table.rows[n]["x"] = ret.table.rows[m]["x"]
               /\ ret.table.rows[n]["y"] = NaN
               /\ ret.table.rows[m]["y"] = Num(1)

(***************************************************************************)
(* C7: tag folding.  A dump with tags stores a table whose index is the    *)
(* given table's index fields followed by the tag keys, in which every row *)
(* has each tag's value in the tag's column and is otherwise the given     *)
(* row, and whose columns are the given ones.                              *)
(***************************************************************************)
C7_TagFolding ==
    LET d == Last(dumps)
        t == StoreNodes(d.name)[d.key]
    IN  (ret.op = "dumpdb" /\ ret.status = "ok" /\ d.kwargs # NoKwargs) =>
            /\ t.index = d.data.index \o KeysOf(d.kwargs)
            /\ t.columns = d.data.columns
            /\ Len(t.rows) = Len(d.data.rows)
            /\ \A i \in 1..Len(t.rows) :
                   /\ \A p \in 1..Len(d.kwargs) :
                          t.rows[i][d.kwargs[p][1]] = d.kwargs[p][2]
                   /\ \A c \in DOMAIN d.data.rows[i] :
                          t.rows[i][c] = d.data.rows[i][c]

\* A table of two rows dumped with the tag trial = 3.
C7_Witness ==
    /\ ret.op = "dumpdb" /\ ret.status = "ok"
    /\ Last(dumps).kwargs = Tags
    /\ Len(Last(dumps).data.rows) = 2
    /\ StoreNodes(Last(dumps).name)[Last(dumps).key].index = <<"x", "trial">>

(***************************************************************************)
(* C8: empty-store error.  A load of a store file that exists and holds no *)
(* entry ends in an error and returns no table, whether it was asked for   *)
(* the most recent version or for the merge of all versions.               *)
(***************************************************************************)
EmptyStore(name) ==
    /\ name \o Suffix \in DOMAIN files
    /\ files[name \o Suffix].kind = "hdf"
    /\ DOMAIN files[name \o Suffix].nodes = {}

C8_EmptyStoreError ==
    (ret.op = "loaddb" /\ EmptyStore(ret.name)) =>
        /\ ret.status # "ok"
        /\ ret.table = NoTable

\* The most recent version was asked of a store whose only dump failed to
\* write.
C8_Witness ==
    /\ ret.op = "loaddb" /\ EmptyStore(ret.name)
    /\ ~ret.load_all
    /\ ret.status = "IndexError"
    /\ \E i \in 1..Len(dumps) : dumps[i].name = ret.name /\ ~dumps[i].ok

(***************************************************************************)
(* C9: catalog resilience.  A scan of an existing work directory raises no *)
(* error and returns, in the order of the directory listing, one entry for *)
(* each file with the store suffix that is a container with at least one   *)
(* entry whose greatest entry name is a VersionKey, and no entry for any   *)
(* other file.                                                             *)
(***************************************************************************)
\* T, eight digits, _, six digits, _, six digits.
VersionKeyShaped(k) ==
    /\ Len(k) = 23
    /\ k[1] = "T" /\ k[10] = "_" /\ k[17] = "_"
    /\ \A i \in (2..9) \cup (11..16) \cup (18..23) : IsDigit(k[i])

ValidStore(fn) ==
    /\ Len(fn) > Len(Suffix)
    /\ SubSeq(fn, Len(fn) - Len(Suffix) + 1, Len(fn)) = Suffix
    /\ fn \in DOMAIN files
    /\ files[fn].kind = "hdf"
    /\ \E k \in DOMAIN files[fn].nodes :
           /\ \A m \in DOMAIN files[fn].nodes : ~StrLess(k, m)
           /\ VersionKeyShaped(k)

C9_CatalogResilience ==
    (ret.op = "dbinfo" /\ dirExists) =>
        LET valid == SelectSeq(ret.listing, ValidStore)
        IN  /\ ret.status = "ok"
            /\ Len(ret.df) = Len(valid)
            /\ \A i \in 1..Len(valid) : ret.df[i].name \o Suffix = valid[i]

\* A directory with one valid store, a file that is no container, a store
\* with no entry and a store whose greatest entry name is no VersionKey.
C9_Witness ==
    /\ ret.op = "dbinfo" /\ dirExists /\ ret.status = "ok"
    /\ Len(ret.df) = 1
    /\ {BadFile, OddFile, OldFile} \subseteq Range(ret.listing)
    /\ \E name \in DumpNames :
           EmptyStore(name) /\ name \o Suffix \in Range(ret.listing)

(***************************************************************************)
(* C10: handle release.  As stated: after every finished call of dumpdb,   *)
(* loaddb and dbinfo, also one that ended in an error or skipped a file,   *)
(* no container handle is open.                                            *)
(***************************************************************************)
C10_HandlesReleased == handles = {}

(***************************************************************************)
(* C11: load and scan are read-only.  Every step of loaddb or dbinfo,      *)
(* whatever its arguments and however it ends, leaves every store file     *)
(* with the entries and the contents it had.                               *)
(***************************************************************************)
C11_ReadOnly ==
    [][(ret'.op \in {"loaddb", "dbinfo"} /\ dumps' = dumps /\ clock' = clock)
           => files' = files]_vars

\* A load with timestamp of the store whose greatest entry name is no
\* VersionKey has failed, a scan that skipped files has returned, and the
\* store has its two entries.
C11_Witness ==
    /\ \/ ret.op = "loaddb" /\ ret.status = "ValueError" /\ ret.name \o Suffix = OddFile
       \/ ret.op = "dbinfo" /\ ret.status = "ok" /\ OddFile \in Range(ret.listing)
    /\ [file |-> OddFile, mode |-> "r"] \in handles
    /\ OddFile \in DOMAIN files
    /\ DOMAIN files[OddFile].nodes = {OldKey, ForeignKey}
    /\ \E name \in DumpNames : DumpsTo(name) # <<>>

(***************************************************************************)
(* C12: the table a load returns never has two rows with the same          *)
(* composite key, in either mode; with merge_all=False its rows are those  *)
(* rows of the latest version that no later row of that version shares the *)
(* key of, in their order.                                                 *)
(***************************************************************************)
\* The positions of the rows of t that are the last of their composite key.
LastOfKey(t) ==
    {i \in 1..Len(t.rows) :
        \A j \in (i + 1)..Len(t.rows) :
            \E c \in Range(t.index) : t.rows[i][c] # t.rows[j][c]}

C12_NoDuplicateKeys ==
    (ret.op = "loaddb" /\ ret.status = "ok") =>
        /\ \A n, m \in 1..Len(ret.table.rows) :
               n # m => \E c \in Range(ret.table.index) :
                            ret.table.rows[n][c] # ret.table.rows[m][c]
        /\ (~ret.load_all /\ DumpsTo(ret.name) # <<>>) =>
               LET latest == Last(DumpsTo(ret.name)).table
                   t == WithoutTimestamp(ret.table)
               IN  /\ Len(t.rows) = Cardinality(LastOfKey(latest))
                   /\ \A n \in 1..Len(t.rows) :
                          \E i \in LastOfKey(latest) :
                              /\ t.rows[n] = latest.rows[i]
                              /\ Cardinality({j \in LastOfKey(latest) :
                                                 j <= i}) = n

\* The latest version has two rows under one key with different values; the
\* load returned the second.
C12_Witness ==
    /\ LoadedLatest /\ ret.status = "ok"
    /\ DumpsTo(ret.name) # <<>>
    /\ Len(Last(DumpsTo(ret.name)).table.rows) = 2
    /\ LastOfKey(Last(DumpsTo(ret.name)).table) = {2}
    /\ Last(DumpsTo(ret.name)).table.rows[1]["v"] = Num(10)
    /\ Len(ret.table.rows) = 1
    /\ ret.table.rows[1]["v"] = Num(20)

C14_LastWriteWins ==
    \A name \in DumpNames :
        LET h == SelectSeq(dumps, LAMBDA d : d.name = name)
        IN  /\ \A i, j \in 1..Len(h) :
                   (i < j /\ h[i].key = h[j].key) =>
                       /\ h[j].ok
                       /\ h[i].key \in DOMAIN StoreNodes(name)
                       /\ StoreNodes(name)[h[i].key]
                              = h[Max({n \in 1..Len(h) :
                                          h[n].key = h[i].key})].table
            /\ Cardinality(DOMAIN StoreNodes(name))
                   = Cardinality({h[i].key : i \in 1..Len(h)})

\* Two dumps of different tables read the same instant: one entry, the
\* second table.
C14_Witness ==
    /\ Len(dumps) = 2
    /\ dumps[1].name = dumps[2].name
    /\ dumps[1].key = dumps[2].key
    /\ dumps[1].table # dumps[2].table
    /\ dumps[1].table.rows # <<>>
    /\ ret.op = "dumpdb" /\ ret.status = "ok"
    /\ DOMAIN StoreNodes(dumps[2].name) = {dumps[2].key}
    /\ StoreNodes(dumps[2].name)[dumps[2].key] = dumps[2].table

(***************************************************************************)
(* C15: directory-creation race.  As stated: in every interleaving of two  *)
(* dumps into an absent work directory both dumps succeed: a dump that     *)
(* finds the directory created by the other between its test and its own   *)
(* os.makedirs goes on and writes its entry.                               *)
(***************************************************************************)
C15_BothDumpsSucceed ==
    \A p \in DOMAIN pc :
        pc[p].at = "done" =>
            /\ pc[p].status = "ok"
            /\ \E i \in 1..Len(dumps) : dumps[i].ok

(***************************************************************************)
(* C16: with timestamp requested, every row of the loaded table has in its *)
(* column timestamp the calendar time of the VersionKey of the version the *)
(* row comes from, which is the instant of that dump to the second (the    *)
(* microseconds of the key are not carried over); in a merge the row kept  *)
(* for a key has the time of the most recent dump that holds the key; and  *)
(* timestamp is a column, not an index field, and no part of the           *)
(* deduplication key.                                                      *)
(***************************************************************************)
\* The cell for the instant t, to the second.
CalendarTime(t) == [kind |-> "datetime", t |-> [t EXCEPT !.microsecond = 0]]

C17_EntryOfLatestDump ==
    (ret.op = "dbinfo" /\ ret.status = "ok") =>
        \A name \in DumpNames :
            (DumpsTo(name) # <<>> /\ name \o Suffix \in Range(ret.listing)) =>
                /\ \E i \in 1..Len(ret.df) : ret.df[i].name = name
                /\ \A i \in 1..Len(ret.df) :
                       ret.df[i].name = name =>
                           ret.df[i].timestamp
                               = [Last(DumpsTo(name)).now
                                      EXCEPT !.microsecond = 0]

\* A scan after two dumps to one store in different seconds.
C17_Witness ==
    /\ ret.op = "dbinfo" /\ ret.status = "ok"
    /\ \E name \in DumpNames :
           /\ Len(DumpsTo(name)) = 2
           /\ DumpsTo(name)[1].now.second # DumpsTo(name)[2].now.second
           /\ Cardinality(DOMAIN StoreNodes(name)) = 2
           /\ \E i \in 1..Len(ret.df) :
                  /\ ret.df[i].name = name
                  /\ ret.df[i].timestamp.second = DumpsTo(name)[2].now.second

(***************************************************************************)
(* C18: the name of a catalog entry.  As stated: for every store file      *)
(* written by dumpdb(data, name) a scan of the work directory reports an   *)
(* entry whose name is exactly name, also when name has a dot in it, and   *)
(* as many entries with that name as there are such files: one.            *)
(***************************************************************************)
C18_EntryNameIsStoreName ==
    (ret.op = "dbinfo" /\ ret.status = "ok") =>
        \A name \in StoreNames :
            (\E i \in 1..Len(dumps) : dumps[i].name = name /\ dumps[i].ok) =>
                Cardinality({i \in 1..Len(ret.df) : ret.df[i].name = name})
                    = 1

(***************************************************************************)
(* C19: dumpdb does not modify the table of the caller.  As stated: after  *)
(* every dumpdb call, with or without tags, the caller's table has the     *)
(* columns, rows and index it had before the call.                         *)
(***************************************************************************)
C19_CallerTableUnchanged ==
    \A i \in 1..Len(dumps) : dumps[i].after = dumps[i].data

(***************************************************************************)
(* C20: every row that load(merge_all=False) returns is also a row of what *)
(* load(merge_all=True) returns for the same store, with the same values   *)
(* in the latest version's columns and index fields and nothing in the     *)
(* fields only older versions have: a merge neither drops nor overrides a  *)
(* row of the latest version.                                              *)
(***************************************************************************)
\* The row q of a merge is the row r with every further field absent.
SameRowIn(r, q) ==
    /\ DOMAIN r \subseteq DOMAIN q
    /\ \A c \in DOMAIN r : q[c] = r[c]
    /\ \A c \in DOMAIN q \ DOMAIN r : q[c] = NaN

C20_LatestWithinMerge ==
    (LoadedLatest /\ ret.status = "ok") =>
        \E m \in {loaddb(ret.name, ret.timestamp, TRUE)} :
            /\ m.status = "ok"
            /\ \A n \in 1..Len(ret.table.rows) :
                   \E k \in 1..Len(m.table.rows) :
                       SameRowIn(ret.table.rows[n], m.table.rows[k])

\* Loaded: the latest of two versions, indexed by x; the older is indexed
\* by x and y and has another value for a key of the latest, so that the
\* merge has more rows and fields than the latest version.
C20_Witness ==
    LET h == DumpsTo(ret.name)
    IN  /\ LoadedLatest /\ ret.status = "ok"
        /\ Len(h) = 2 /\ DistinctKeys(h)
        /\ h[1].table.index = <<"x", "y">> /\ h[2].table.index = <<"x">>
        /\ Len(ret.table.rows) = 2
        /\ \E i \in 1..Len(h[1].table.rows), n \in 1..Len(ret.table.rows) :
               /\ h[1].table.rows[i]["x"] = ret.table.rows[n]["x"]
               /\ h[1].table.rows[i]["v"] # ret.table.rows[n]["v"]
        /\ Len(loaddb(ret.name, ret.timestamp, TRUE).table.rows) > 2

====
